---------------------------- MODULE Spec2Model ----------------------------
(***************************************************************************)
(* Model of the review-trend pipeline of src/agent.py:                     *)
(*   TaxonomyManager   (load_taxonomy, save_taxonomy, map_extracted_topic, *)
(*                      add_new_topic),                                    *)
(*   ReviewAgent       (extract_topics_batch),                             *)
(*   process_daily_batch and visualization.generate_visualizations.        *)
(*                                                                         *)
(* Embeddings are integer vectors of integer length, so that the cosine    *)
(* similarity of two of them is an exact rational number; the comparison   *)
(* with SIMILARITY_THRESHOLD = 0.82 = 82/100 is done on cross products.    *)
(***************************************************************************)
EXTENDS Integers, Sequences, FiniteSets, TLC

VARIABLES
    topics,          \* TaxonomyManager.topics: the dict, in insertion order
    taxFile,         \* content of taxonomy.json, or NoFile
    bakFile,         \* content of taxonomy.json.bak, or NoFile
    statsFiles,      \* output/stats_<date>.json for each date, or NoFile
    plots,           \* the PNG files the last visualizer call wrote
    pc,              \* position of process_daily_batch
    date_str,        \* its argument
    i,               \* its loop variable
    daily_topics,    \* its local dict {topic: count}
    extracted_items, \* its local list, the last return of extract_topics_batch
    now,             \* datetime.now(): the number of operations started so far
    returned,        \* what the last call returned (None while one is running)
    \* history variables
    curResp,         \* the extractor's outcome for each chunk of the current run
    replay,          \* the current run repeats the previous run's date and outcomes
    prev,            \* the previous completed run: date, outcomes, stats, taxonomy at start
    runStart,        \* the taxonomy when the current run started
    savesInRun,      \* save_taxonomy calls made by the current run
    saveWrote,       \* the files the most recent save_taxonomy call wrote
    lastSaved,       \* what the most recent save_taxonomy call wrote to taxonomy.json
    prevSaved        \* what the save_taxonomy call before that one wrote to it

vars == <<topics, taxFile, bakFile, statsFiles, plots, pc, date_str, i,
          daily_topics, extracted_items, now, returned, curResp, replay, prev,
          runStart, savesInRun, saveWrote, lastSaved, prevSaved>>

---------------------------------------------------------------------------
(* Bounds of the model *)

\* the number of operations that change the taxonomy or its file: batch runs
\* with freely chosen extractor outcomes, and direct calls of add_new_topic
\* and save_taxonomy
MaxOps == 2

(* Program constants *)

\* SIMILARITY_THRESHOLD = 0.82, as the fraction ThresholdNum / ThresholdDen
ThresholdNum == 82
ThresholdDen == 100
CHUNK_SIZE == 20
\* extract_topics_batch skips a review whose content is shorter than this
MinContentLen == 4

\* a file: whether it exists, and its content
NoFile == [exists |-> FALSE, content |-> <<>>]
File(content) == [exists |-> TRUE, content |-> content]
None == "none"
TAXONOMY_FILE == "taxonomy.json"
BACKUP_FILE == "taxonomy.json.bak"

---------------------------------------------------------------------------
(* The embedding provider: a fixed function from phrases to vectors.       *)
(* "App Crash" and "app crash" get the same vector (the model is uncased). *)

Phrases == {"app crash", "App Crash", "crash on login", "app keeps crashing"}

embed_query(text) ==
    CASE text = "app crash"          -> <<1, 0, 0, 0>>
      [] text = "App Crash"          -> <<1, 0, 0, 0>>
      [] text = "crash on login"     -> <<2, 1, 2, 0>>
      [] text = "app keeps crashing" -> <<41, 27, 9, 3>>

get_topic_embedding(text) == embed_query(text)

RECURSIVE DotUpTo(_, _, _)
DotUpTo(a, b, k) ==
    IF k = 0 THEN 0 ELSE a[k] * b[k] + DotUpTo(a, b, k - 1)

Dot(a, b) == DotUpTo(a, b, Len(a))

RECURSIVE SqrtFrom(_, _)
SqrtFrom(s, n) == IF n * n >= s THEN n ELSE SqrtFrom(s, n + 1)

\* the Euclidean lengths of the embeddings (an integer for each of them)
Norms ==
    [v \in {embed_query(p) : p \in Phrases} |-> SqrtFrom(Dot(v, v), 0)]

Norm(a) == IF a \in DOMAIN Norms THEN Norms[a] ELSE SqrtFrom(Dot(a, a), 0)

\* sklearn's cosine_similarity of two vectors, as a fraction with den > 0;
\* a vector of length 0 is left as it is by the normalisation: similarity 0
CosineSimilarity(a, b) ==
    LET na == Norm(a)
        nb == Norm(b)
    IN  IF na = 0 \/ nb = 0
        THEN [num |-> 0, den |-> 1]
        ELSE [num |-> Dot(a, b), den |-> na * nb]

FracLess(x, y) == x.num * y.den < y.num * x.den
FracAtLeastThreshold(x) == x.num * ThresholdDen >= ThresholdNum * x.den

\* numpy.argmax: the first index of the largest element
RECURSIVE ArgmaxFrom(_, _, _)
ArgmaxFrom(s, k, best) ==
    IF k > Len(s) THEN best
    ELSE ArgmaxFrom(s, k + 1, IF FracLess(s[best], s[k]) THEN k ELSE best)

\* a variant: the last index of the largest element
RECURSIVE ArgmaxLastFrom(_, _, _)
ArgmaxLastFrom(s, k, best) ==
    IF k > Len(s) THEN best
    ELSE ArgmaxLastFrom(s, k + 1, IF FracLess(s[k], s[best]) THEN best ELSE k)

ArgmaxLast(s) == ArgmaxLastFrom(s, 2, 1)

Argmax(s) == ArgmaxFrom(s, 2, 1)

---------------------------------------------------------------------------
(* TaxonomyManager *)

HasTopic(tp, name) == \E k \in 1..Len(tp) : tp[k].name = name

\* .tolist() of save_taxonomy and np.array() of load_taxonomy
Tolist(embedding) == [k \in 1..Len(embedding) |-> embedding[k]]
NpArray(list) == [k \in 1..Len(list) |-> list[k]]

\* the JSON text save_taxonomy writes
Serialize(tp) ==
    File([k \in 1..Len(tp) |->
            [name |-> tp[k].name, examples |-> tp[k].examples,
             embedding |-> Tolist(tp[k].embedding),
             created_at |-> tp[k].created_at]])

\* load_taxonomy
LoadedTopics(file) ==
    IF ~file.exists THEN <<>>
    ELSE [k \in 1..Len(file.content) |->
            [name |-> file.content[k].name,
             examples |-> file.content[k].examples,
             embedding |-> NpArray(file.content[k].embedding),
             created_at |-> file.content[k].created_at]]

\* a variant: the existence test looks at the backup's path
BackupWrongPath(file, bak) == IF bak.exists THEN file ELSE bak

\* a variant: the copy is made whether or not the file exists
BackupAlways(file, bak) == File(file.content)

\* the backup save_taxonomy leaves: a copy of the file it is about to overwrite
BackupOnSave(file, bak) == IF file.exists THEN file ELSE bak

\* the files one save_taxonomy call writes
FilesWrittenOnSave(file) ==
    IF file.exists THEN {TAXONOMY_FILE, BACKUP_FILE} ELSE {TAXONOMY_FILE}

\* the similarity of the raw topic to every topic, in dict order
Similarities(tp, raw_topic) ==
    [k \in 1..Len(tp) |->
        CosineSimilarity(get_topic_embedding(raw_topic), tp[k].embedding)]

map_extracted_topic(tp, raw_topic) ==
    IF tp = <<>> THEN raw_topic
    ELSE LET similarities == Similarities(tp, raw_topic)
             best_idx == Argmax(similarities)
         IN  IF FracAtLeastThreshold(similarities[best_idx])
             THEN tp[best_idx].name
             ELSE raw_topic

\* a variant: no test for an existing name
add_new_topic_NoCheck(tp, topic_name, time) ==
    Append(tp, [name |-> topic_name, examples |-> <<topic_name>>,
                embedding |-> get_topic_embedding(topic_name),
                created_at |-> time])

add_new_topic(tp, topic_name, time) ==
    IF HasTopic(tp, topic_name) THEN tp
    ELSE Append(tp, [name |-> topic_name, examples |-> <<topic_name>>,
                     embedding |-> get_topic_embedding(topic_name),
                     created_at |-> time])

---------------------------------------------------------------------------
(* The input files data/<date>.json: each review by the length of its text *)

Dates == 1..4

Review(id, len) == [reviewId |-> id, content_len |-> len]

DataFiles ==
    [d \in Dates |->
    CASE d = 1 -> NoFile
      [] d = 2 -> File([k \in 1..41 |-> Review(k, IF k \in {1, 41} THEN 10 ELSE 2)])
      [] d = 3 -> File([k \in 1..20 |-> Review(k, IF k = 7 THEN 10 ELSE 2)])
      [] d = 4 -> File(<<>>)]

DataFile(d) == DataFiles[d]

\* json.load of the input file
Reviews(d) == DataFile(d).content

---------------------------------------------------------------------------
(* ReviewAgent.extract_topics_batch *)

\* the reviews that go into the prompt: those of at least MinContentLen characters
ReviewsText(reviews_batch) ==
    SelectSeq(reviews_batch, LAMBDA r : r.content_len >= MinContentLen)

\* an extraction {reviewId, topic} by its topic; "" is an empty or missing topic
TopicValues == Phrases \cup {""}

Min(a, b) == IF a < b THEN a ELSE b

ItemSeqs(n) ==
    UNION {[1..m -> [topic : TopicValues]] : m \in 0..n}

\* what chain.invoke can do for a prompt: raise, or return a list holding at
\* most one extraction per review of the prompt
LLMOutcomes(reviews_batch) ==
    IF ReviewsText(reviews_batch) = <<>>
    THEN {[kind |-> "nocall", items |-> <<>>]}
    ELSE {[kind |-> "raise", items |-> <<>>]} \cup
         {[kind |-> "ok", items |-> s] :
             s \in ItemSeqs(Len(ReviewsText(reviews_batch)))}

\* a variant: the exception of chain.invoke is not caught
extract_topics_batch_NoCatch(reviews_batch, llm) ==
    IF ReviewsText(reviews_batch) = <<>>
    THEN [raised |-> FALSE, value |-> <<>>]
    ELSE IF llm.kind = "raise"
         THEN [raised |-> TRUE, value |-> <<>>]
         ELSE [raised |-> FALSE, value |-> llm.items]

\* raised: an exception leaves the method; value: the list it returns
extract_topics_batch(reviews_batch, llm) ==
    IF ReviewsText(reviews_batch) = <<>>
    THEN [raised |-> FALSE, value |-> <<>>]
    ELSE IF llm.kind = "raise"
         THEN [raised |-> FALSE, value |-> <<>>]
         ELSE [raised |-> FALSE, value |-> llm.items]

---------------------------------------------------------------------------
(* process_daily_batch *)

EmptyDict == [n \in {} |-> 0]

\* a variant: daily_topics[t] = 1
CountTopicOnce(daily, t) ==
    IF t \in DOMAIN daily THEN [daily EXCEPT ![t] = 1]
    ELSE daily @@ (t :> 1)

\* daily_topics[t] = daily_topics.get(t, 0) + 1
CountTopic(daily, t) ==
    IF t \in DOMAIN daily THEN [daily EXCEPT ![t] = @ + 1]
    ELSE daily @@ (t :> 1)

\* a variant: every raw topic is taken as a new topic, without matching
MapOneNoMatch(st, raw_topic, time) ==
    [topics |-> IF ~HasTopic(st.topics, raw_topic)
                THEN add_new_topic(st.topics, raw_topic, time)
                ELSE st.topics,
     daily  |-> CountTopic(st.daily, raw_topic)]

\* the body of "for item in extracted_items" for one item with a topic
MapOne(st, raw_topic, time) ==
    LET mapped_topic == map_extracted_topic(st.topics, raw_topic)
    IN  [topics |-> IF ~HasTopic(st.topics, mapped_topic)
                    THEN add_new_topic(st.topics, mapped_topic, time)
                    ELSE st.topics,
         daily  |-> CountTopic(st.daily, mapped_topic)]

RECURSIVE MapAndCount(_, _, _)
MapAndCount(st, items, time) ==
    IF items = <<>> THEN st
    ELSE MapAndCount(IF Head(items).topic = "" THEN st
                     ELSE MapOne(st, Head(items).topic, time),
                     Tail(items), time)

\* reviews[i:i+CHUNK_SIZE], with i counted from 0
Chunk(reviews, k) ==
    SubSeq(reviews, k + 1, Min(k + CHUNK_SIZE, Len(reviews)))

---------------------------------------------------------------------------
(* visualization.generate_visualizations *)

VizOutcomes == {"ok", "load_error", "bar_error"}
NoPlots == [heatmap |-> FALSE, bar |-> FALSE]

\* load_stats_data(...).empty: no stats file names any topic
DfEmpty(stats) ==
    \A d \in Dates : ~stats[d].exists \/ DOMAIN stats[d].content = {}

\* a variant: no try/except around the body
generate_visualizations_NoCatch(stats, current_date, outcome) ==
    IF outcome = "load_error"
    THEN [raised |-> TRUE, plots |-> NoPlots]
    ELSE IF DfEmpty(stats)
    THEN [raised |-> FALSE, plots |-> NoPlots]
    ELSE IF outcome = "bar_error"
         THEN [raised |-> TRUE, plots |-> [heatmap |-> TRUE, bar |-> FALSE]]
         ELSE [raised |-> FALSE, plots |-> [heatmap |-> TRUE, bar |-> TRUE]]

\* raised: an exception leaves the function; plots: the PNG files the call wrote
generate_visualizations(stats, current_date, outcome) ==
    IF outcome = "load_error" \/ DfEmpty(stats)
    THEN [raised |-> FALSE, plots |-> NoPlots]
    ELSE IF outcome = "bar_error"
         THEN [raised |-> FALSE, plots |-> [heatmap |-> TRUE, bar |-> FALSE]]
         ELSE [raised |-> FALSE, plots |-> [heatmap |-> TRUE, bar |-> TRUE]]

---------------------------------------------------------------------------
(* The state machine *)

\* no process_daily_batch run has completed yet
NoPrev == [valid |-> FALSE, date |-> 0, resp |-> <<>>, stats |-> <<>>,
           start |-> <<>>, finish |-> <<>>, replayed |-> FALSE]

Init ==
    /\ topics = <<>>
    /\ taxFile = NoFile
    /\ bakFile = NoFile
    /\ statsFiles = [d \in Dates |-> NoFile]
    /\ plots = NoPlots
    /\ pc = "idle"
    /\ date_str = 1
    /\ i = 0
    /\ daily_topics = EmptyDict
    /\ extracted_items = <<>>
    /\ now = 0
    /\ returned = None
    /\ curResp = <<>>
    /\ replay = FALSE
    /\ prev = NoPrev
    /\ runStart = <<>>
    /\ savesInRun = 0
    /\ saveWrote = {}
    /\ lastSaved = NoFile
    /\ prevSaved = NoFile

storeVars == <<topics, taxFile, bakFile, saveWrote, lastSaved, prevSaved>>
runVars == <<pc, date_str, i, daily_topics, extracted_items, now, curResp,
             replay, prev, runStart, savesInRun>>

\* TaxonomyManager(): a new process loads the persisted taxonomy
LoadTaxonomy ==
    /\ pc \in {"idle", "aborted"}
    /\ topics' = LoadedTopics(taxFile)
    /\ pc' = "idle"
    /\ returned' = None
    /\ UNCHANGED <<taxFile, bakFile, statsFiles, plots, date_str, i,
                   daily_topics, extracted_items, now, curResp,
                   replay, prev, runStart, savesInRun, saveWrote, lastSaved,
                   prevSaved>>

\* the effect of save_taxonomy on the two files (and on the history of saves)
SaveEffect ==
    /\ bakFile' = BackupOnSave(taxFile, bakFile)
    /\ taxFile' = Serialize(topics)
    /\ saveWrote' = FilesWrittenOnSave(taxFile)
    /\ prevSaved' = lastSaved
    /\ lastSaved' = Serialize(topics)

\* process_daily_batch(date): the input file is missing, "[SKIP]"
SkipBatch(d) ==
    /\ pc = "idle"
    /\ ~DataFile(d).exists
    /\ returned' = None
    /\ UNCHANGED <<storeVars, statsFiles, plots, runVars>>

\* a variant: daily_topics is not reset at the start of a run
StartBatchKeepCounts(d, rep) ==
    /\ pc = "idle"
    /\ DataFile(d).exists
    /\ IF rep THEN prev.valid /\ prev.date = d /\ ~prev.replayed
              ELSE now < MaxOps
    /\ pc' = "chunks"
    /\ date_str' = d
    /\ i' = 0
    /\ daily_topics' = daily_topics
    /\ extracted_items' = <<>>
    /\ now' = IF rep THEN now ELSE now + 1
    /\ curResp' = <<>>
    /\ replay' = rep
    /\ prev' = IF rep THEN prev ELSE NoPrev
    /\ runStart' = topics
    /\ savesInRun' = 0
    /\ returned' = None
    /\ UNCHANGED <<storeVars, statsFiles, plots>>

\* process_daily_batch(date) up to the loop; rep: this run repeats the previous
\* one (same date, same extractor outcomes)
StartBatch(d, rep) ==
    /\ pc = "idle"
    /\ DataFile(d).exists
    /\ IF rep THEN prev.valid /\ prev.date = d /\ ~prev.replayed
              ELSE now < MaxOps
    /\ pc' = "chunks"
    /\ date_str' = d
    /\ i' = 0
    /\ daily_topics' = EmptyDict
    /\ extracted_items' = <<>>
    /\ now' = IF rep THEN now ELSE now + 1
    /\ curResp' = <<>>
    /\ replay' = rep
    /\ prev' = IF rep THEN prev ELSE NoPrev
    /\ runStart' = topics
    /\ savesInRun' = 0
    /\ returned' = None
    /\ UNCHANGED <<storeVars, statsFiles, plots>>

\* one iteration of "for i in range(0, len(reviews), CHUNK_SIZE)"
ProcessChunk ==
    /\ pc = "chunks"
    /\ i < Len(Reviews(date_str))
    /\ \E llm \in LLMOutcomes(Chunk(Reviews(date_str), i)) :
       LET batch == Chunk(Reviews(date_str), i)
           ext == extract_topics_batch(batch, llm)
           st == MapAndCount([topics |-> topics, daily |-> daily_topics],
                             ext.value, now)
       IN  /\ replay => llm = prev.resp[Len(curResp) + 1].llm
           /\ curResp' = Append(curResp, [offset |-> i, llm |-> llm,
                                          raised |-> ext.raised,
                                          items |-> ext.value])
           /\ IF ext.raised
              THEN /\ pc' = "aborted"
                   /\ UNCHANGED <<topics, daily_topics, extracted_items, i>>
              ELSE /\ pc' = "chunks"
                   /\ extracted_items' = ext.value
                   /\ topics' = st.topics
                   /\ daily_topics' = st.daily
                   /\ i' = i + CHUNK_SIZE
    /\ UNCHANGED <<taxFile, bakFile, saveWrote, lastSaved, prevSaved,
                   statsFiles, plots, date_str, now, returned, replay, prev,
                   runStart, savesInRun>>

\* after the loop: json.dump(daily_topics) to output/stats_<date>.json
WriteStats ==
    /\ pc = "chunks"
    /\ i >= Len(Reviews(date_str))
    /\ statsFiles' = [statsFiles EXCEPT ![date_str] = File(daily_topics)]
    /\ pc' = "save"
    /\ UNCHANGED <<storeVars, plots, date_str, i, daily_topics,
                   extracted_items, now, returned, curResp, replay, prev,
                   runStart, savesInRun>>

\* taxonomy_mgr.save_taxonomy() at the end of the batch
SaveStep ==
    /\ pc = "save"
    /\ SaveEffect
    /\ savesInRun' = savesInRun + 1
    /\ pc' = "viz"
    /\ UNCHANGED <<topics, statsFiles, plots, date_str, i, daily_topics,
                   extracted_items, now, returned, curResp, replay, prev,
                   runStart>>

\* generate_visualizations(OUTPUT_DIR, date_str), then the function returns
Visualize(outcome) ==
    /\ pc = "viz"
    /\ LET viz == generate_visualizations(statsFiles, date_str, outcome)
       IN  /\ plots' = viz.plots
           /\ pc' = IF viz.raised THEN "aborted" ELSE "idle"
    /\ prev' = [valid |-> TRUE, date |-> date_str, resp |-> curResp, stats |-> daily_topics,
                start |-> runStart, finish |-> topics, replayed |-> replay]
    /\ UNCHANGED <<storeVars, statsFiles, date_str, i, daily_topics,
                   extracted_items, now, returned, curResp, replay, runStart,
                   savesInRun>>

\* direct calls of the TaxonomyManager's methods, between batch runs
callVars == <<pc, date_str, i, daily_topics, extracted_items, curResp,
              replay, prev, runStart, savesInRun>>

ResolveCall(raw_topic) ==
    /\ pc = "idle"
    /\ returned' = map_extracted_topic(topics, raw_topic)
    /\ UNCHANGED <<storeVars, statsFiles, plots, now, callVars>>

AddNewTopicCall(topic_name) ==
    /\ pc = "idle"
    /\ now < MaxOps
    /\ now' = now + 1
    /\ topics' = add_new_topic(topics, topic_name, now')
    /\ returned' = None
    /\ UNCHANGED <<taxFile, bakFile, saveWrote, lastSaved, prevSaved,
                   statsFiles, plots, callVars>>

SaveCall ==
    /\ pc = "idle"
    /\ now < MaxOps
    /\ now' = now + 1
    /\ SaveEffect
    /\ returned' = None
    /\ UNCHANGED <<topics, statsFiles, plots, callVars>>

\* the pipeline: processes that load the taxonomy and run daily batches
Next ==
    \/ LoadTaxonomy
    \/ \E d \in Dates : SkipBatch(d)
    \/ \E d \in Dates, rep \in BOOLEAN : StartBatch(d, rep)
    \/ ProcessChunk
    \/ WriteStats
    \/ SaveStep
    \/ \E o \in VizOutcomes : Visualize(o)

Spec == Init /\ [][Next]_vars

\* the pipeline and any direct use of the TaxonomyManager between runs
NextStore ==
    \/ Next
    \/ \E p \in Phrases : ResolveCall(p)
    \/ \E p \in Phrases : AddNewTopicCall(p)
    \/ SaveCall

SpecStore == Init /\ [][NextStore]_vars

---------------------------------------------------------------------------
(* Helpers of the properties *)

\* the similarities of raw_topic to the topics of tp, as map_extracted_topic sees them
SimsOf(tp, raw_topic) ==
    [k \in 1..Len(tp) |->
        CosineSimilarity(embed_query(raw_topic), tp[k].embedding)]

\* the indices of the largest of the similarities sims
MaxIdx(sims) ==
    {k \in 1..Len(sims) :
        \A j \in 1..Len(sims) :
            sims[j].num * sims[k].den <= sims[k].num * sims[j].den}

\* the earliest of them in insertion order
FirstMaxIdx(sims) ==
    LET m == MaxIdx(sims) IN CHOOSE k \in m : \A j \in m : k <= j

\* similarity >= 0.82
AtLeast082(x) == 100 * x.num >= 82 * x.den

RECURSIVE SumCounts(_)
SumCounts(daily) ==
    IF DOMAIN daily = {} THEN 0
    ELSE LET t == CHOOSE t \in DOMAIN daily : TRUE
         IN  daily[t] + SumCounts([u \in DOMAIN daily \ {t} |-> daily[u]])

RECURSIVE NonEmptyTopics(_)
NonEmptyTopics(items) ==
    IF items = <<>> THEN 0
    ELSE (IF Head(items).topic # "" THEN 1 ELSE 0) + NonEmptyTopics(Tail(items))

\* the extractions with a non-empty topic returned by the calls of a run
RECURSIVE NonEmptyReturned(_)
NonEmptyReturned(resp) ==
    IF resp = <<>> THEN 0
    ELSE NonEmptyTopics(Head(resp).items) + NonEmptyReturned(Tail(resp))

\* ceil(n / 20)
CeilDiv20(n) == (n + 19) \div 20

\* the raw phrases of items that resolve to the topic called name, in
\* order, when the items are processed one after another starting from tp
RECURSIVE MappedInto(_, _, _)
MappedInto(name, tp, items) ==
    IF items = <<>> THEN <<>>
    ELSE IF Head(items).topic = "" THEN MappedInto(name, tp, Tail(items))
    ELSE LET raw == Head(items).topic
             to == map_extracted_topic(tp, raw)
             tp2 == IF HasTopic(tp, to) THEN tp ELSE add_new_topic(tp, to, 0)
         IN  (IF to = name THEN <<raw>> ELSE <<>>)
                 \o MappedInto(name, tp2, Tail(items))

\* a step that is one iteration of the loop over the chunks
ChunkStep == pc = "chunks" /\ pc' = "chunks" /\ i' = i + 20

AnySave == SaveStep \/ SaveCall

---------------------------------------------------------------------------
(* C1: map_extracted_topic returns the raw topic for an empty taxonomy;    *)
(* otherwise the name of the topic of largest cosine similarity, the       *)
(* earliest in insertion order among equals, if that similarity is         *)
(* >= 0.82, and the raw topic if it is below; and a call of it leaves the  *)
(* taxonomy and its files as they are.                                     *)
C1_ResolveValue ==
    \A raw \in Phrases :
        map_extracted_topic(topics, raw) =
            IF Len(topics) = 0 THEN raw
            ELSE LET sims == SimsOf(topics, raw)
                     first == FirstMaxIdx(sims)
                 IN  IF AtLeast082(sims[first]) THEN topics[first].name
                     ELSE raw

C1_ResolveContract ==
    /\ []C1_ResolveValue
    /\ [][(\E raw \in Phrases : ResolveCall(raw))
             => UNCHANGED <<topics, taxFile, bakFile>>]_vars

\* a direct call returned the first of two topics that tie at >= 0.82
C1_Witness ==
    /\ Len(topics) >= 2
    /\ returned = topics[1].name
    /\ \E raw \in Phrases :
          /\ raw # returned
          /\ MaxIdx(SimsOf(topics, raw)) = {1, 2}
          /\ AtLeast082(SimsOf(topics, raw)[2])

---------------------------------------------------------------------------
(* C2: each topic's examples list is the ordered list of the raw phrases   *)
(* mapped into it: every iteration of the batch loop appends to each       *)
(* topic's examples the phrases of the chunk that resolved to it.          *)
C2_ExamplesRecordMappedPhrases ==
    [][ChunkStep =>
         \A k \in 1..Len(topics') :
             topics'[k].examples =
                 (IF k <= Len(topics) THEN topics[k].examples ELSE <<>>)
                     \o MappedInto(topics'[k].name, topics, extracted_items')]_vars

---------------------------------------------------------------------------
(* C3, as claimed: a run that repeats the previous run's date and          *)
(* extractor outcomes, starting from the taxonomy the previous run left,   *)
(* writes the same DailyStats as the previous run.                         *)
C3_RerunSameStats ==
    (pc = "viz" /\ replay /\ runStart = prev.finish)
        => statsFiles[date_str] = File(prev.stats)

(* C3, amended: a run that repeats the previous run's date and extractor   *)
(* outcomes, starting from the taxonomy the previous run started from      *)
(* (the previous run added no topic), writes the same DailyStats.          *)
C3_RerunUnchangedTaxonomy ==
    (pc = "viz" /\ replay /\ runStart = prev.start)
        => statsFiles[date_str] = File(prev.stats)

\* such a rerun, in which a phrase was counted under another topic's name
C3_Witness ==
    /\ pc = "viz"
    /\ replay
    /\ runStart = prev.start
    /\ runStart # <<>>
    /\ \E k \in 1..Len(curResp) : \E n \in 1..Len(curResp[k].items) :
          /\ curResp[k].items[n].topic # ""
          /\ ~HasTopic(topics, curResp[k].items[n].topic)
    /\ statsFiles[date_str] = File(prev.stats)

---------------------------------------------------------------------------
(* C4: a run over N reviews calls extract_topics_batch ceil(N/20) times,   *)
(* on the chunks at offsets 0, 20, 40, ... in this order, and the counts   *)
(* of the DailyStats it writes add up to the number of extractions with a  *)
(* non-empty topic that those calls returned.                              *)
C4_ChunksAndTotal ==
    pc \in {"save", "viz"} =>
        /\ Len(curResp) = CeilDiv20(Len(Reviews(date_str)))
        /\ \A k \in 1..Len(curResp) : curResp[k].offset = 20 * (k - 1)
        /\ statsFiles[date_str].exists
        /\ SumCounts(statsFiles[date_str].content) = NonEmptyReturned(curResp)

\* 41 reviews, three calls: one returned an extraction with an empty topic,
\* one was given only short reviews, one returned a topic
C4_Witness ==
    /\ pc = "save"
    /\ Len(Reviews(date_str)) = 41
    /\ Len(curResp) = 3
    /\ curResp[1].items = <<[topic |-> ""]>>
    /\ curResp[2].llm.kind = "nocall"
    /\ NonEmptyTopics(curResp[3].items) = 1
    /\ SumCounts(statsFiles[date_str].content) = 1

---------------------------------------------------------------------------
(* C5: for every topic of the taxonomy, an input whose embedding equals    *)
(* the topic's stored embedding resolves to that topic's name.             *)
C5_IdenticalEmbeddingResolves ==
    \A k \in 1..Len(topics) : \A raw \in Phrases :
        embed_query(raw) = topics[k].embedding
            => map_extracted_topic(topics, raw) = topics[k].name

\* the second of two topics has the embedding of a phrase that is not its name
C5_Witness ==
    /\ Len(topics) = 2
    /\ \E raw \in Phrases :
          /\ raw # topics[2].name
          /\ embed_query(raw) = topics[2].embedding
          /\ map_extracted_topic(topics, raw) = topics[2].name

---------------------------------------------------------------------------
(* C6: when the extraction call raises for a chunk, extract_topics_batch   *)
(* returns an empty list and does not raise: the chunk changes neither the *)
(* counts nor the taxonomy, the remaining chunks are processed, and the    *)
(* run writes DailyStats and saves the taxonomy.                           *)
C6_FailedSomewhere ==
    \E k \in 1..Len(curResp) : curResp[k].llm.kind = "raise"

C6_State ==
    /\ pc # "aborted"
    /\ \A k \in 1..Len(curResp) :
          curResp[k].llm.kind = "raise"
              => ~curResp[k].raised /\ curResp[k].items = <<>>
    /\ (C6_FailedSomewhere /\ pc \in {"save", "viz"}) =>
          /\ Len(curResp) = CeilDiv20(Len(Reviews(date_str)))
          /\ statsFiles[date_str] = File(daily_topics)
          /\ SumCounts(daily_topics) = NonEmptyReturned(curResp)
    /\ (C6_FailedSomewhere /\ pc = "viz") => taxFile = Serialize(topics)

C6_FailedChunkContributesNothing ==
    /\ []C6_State
    /\ [][(pc = "chunks" /\ Len(curResp') = Len(curResp) + 1
             /\ curResp'[Len(curResp')].llm.kind = "raise")
            => /\ pc' = "chunks"
               /\ i' = i + 20
               /\ UNCHANGED <<topics, daily_topics>>]_vars

\* the first call failed, a later one returned a topic, and the run has
\* written the stats and saved the taxonomy
C6_Witness ==
    /\ pc = "viz"
    /\ Len(curResp) = 3
    /\ curResp[1].llm.kind = "raise"
    /\ NonEmptyTopics(curResp[3].items) = 1
    /\ statsFiles[date_str] = File(daily_topics)
    /\ SumCounts(daily_topics) = 1
    /\ taxFile = Serialize(topics)

---------------------------------------------------------------------------
(* C7: once save_taxonomy has been called twice or more, the backup file   *)
(* holds what the call before the last one wrote to taxonomy.json.         *)
C7_BackupOneGenerationBehind ==
    prevSaved.exists => bakFile = prevSaved

\* two saves of different taxonomies, the first of them not empty
C7_Witness ==
    /\ prevSaved.exists
    /\ Len(prevSaved.content) >= 1
    /\ lastSaved # prevSaved
    /\ taxFile = lastSaved
    /\ bakFile = prevSaved

---------------------------------------------------------------------------
(* C8, as claimed: every call of save_taxonomy writes both files.          *)
C8_EverySaveWritesTwoFiles ==
    lastSaved.exists => saveWrote = {TAXONOMY_FILE, BACKUP_FILE}

(* C8, amended: every call of save_taxonomy writes taxonomy.json; it       *)
(* writes the backup exactly when taxonomy.json existed before the call,   *)
(* so the first save after a cold start writes one file and leaves no      *)
(* backup, and every later save writes both.                               *)
C8_StateAfterSave ==
    /\ lastSaved.exists => (taxFile.exists /\ TAXONOMY_FILE \in saveWrote)
    /\ BACKUP_FILE \in saveWrote <=> prevSaved.exists
    /\ bakFile.exists <=> prevSaved.exists

C8_BackupOnlyIfFileExisted ==
    /\ []C8_StateAfterSave
    /\ [][AnySave =>
            /\ taxFile'.exists
            /\ TAXONOMY_FILE \in saveWrote'
            /\ BACKUP_FILE \in saveWrote' <=> taxFile.exists
            /\ bakFile' = IF taxFile.exists THEN taxFile ELSE bakFile]_vars

\* after the first save of a taxonomy with a topic: one file, no backup
C8_Witness ==
    /\ lastSaved.exists
    /\ ~prevSaved.exists
    /\ Len(taxFile.content) >= 1
    /\ saveWrote = {TAXONOMY_FILE}
    /\ ~bakFile.exists

---------------------------------------------------------------------------
\* new holds every topic of old, at its place, with its name and embedding
Grows(old, new) ==
    /\ Len(new) >= Len(old)
    /\ \A k \in 1..Len(old) :
          new[k].name = old[k].name /\ new[k].embedding = old[k].embedding

\* no name twice, and each embedding is that of the topic's first phrase
C9_Unique ==
    /\ \A j, k \in 1..Len(topics) : j # k => topics[j].name # topics[k].name
    /\ \A k \in 1..Len(topics) :
          /\ topics[k].examples[1] = topics[k].name
          /\ topics[k].embedding = embed_query(topics[k].examples[1])

---------------------------------------------------------------------------
(* C10: when the visualizer is invoked the run has written its DailyStats  *)
(* and has saved the taxonomy, with one save_taxonomy call made after all  *)
(* chunks; the visualizer's failure is caught: the call returns to the     *)
(* caller and leaves the stats, the taxonomy and its files as they are.    *)
C10_State ==
    /\ pc # "aborted"
    /\ pc \in {"chunks", "save"} => savesInRun = 0
    /\ pc = "viz" =>
          /\ Len(curResp) = CeilDiv20(Len(Reviews(date_str)))
          /\ statsFiles[date_str] = File(daily_topics)
          /\ savesInRun = 1
          /\ taxFile = Serialize(topics)

C10_PersistBeforeVisualize ==
    /\ []C10_State
    /\ [][pc = "viz" =>
            /\ pc' = "idle"
            /\ UNCHANGED <<statsFiles, topics, taxFile, bakFile>>]_vars

\* a run has returned after a failed visualization: nothing was plotted
\* although there are counts, and the stats and the taxonomy are on disk
C10_Witness ==
    /\ pc = "idle"
    /\ prev.valid
    /\ plots = NoPlots
    /\ ~DfEmpty(statsFiles)
    /\ statsFiles[prev.date] = File(prev.stats)
    /\ DOMAIN prev.stats # {}
    /\ taxFile = Serialize(topics)
    /\ savesInRun = 1

====
